---- MODULE Spec2Model ----
(***************************************************************************)
(* SceneTriggeringComponent (mastodon_sim/concordia/components/            *)
(* triggering.py): detection of a phone event, resolution of the player,   *)
(* the nested phone scene run in the clock's higher gear, and the merge of *)
(* the scene's output into the player's observations and the shared        *)
(* memory.  The language model, the nested episode, the player's observe   *)
(* and the memory's add are collaborators: each call of one either fails   *)
(* (raises) or yields a value chosen nondeterministically.                 *)
(***************************************************************************)
EXTENDS Naturals, Sequences, FiniteSets, TLC

VARIABLES
    players,       \* self._players: the roster, player names in order
    phones,        \* self._phones: the registered devices, in order
    log,           \* each player's observations (player.observe appends)
    memory,        \* self._memory: the shared associative memory (add appends)
    gear,          \* self._clock: the active gear
    pc,            \* position of the component's current call
    op,            \* the public operation the current/last call belongs to
    is_phone,      \* the model's answer to _is_phone_event's question for the statement
    answers,       \* the model's answer to the per-player question, per player name
    idx,           \* loop position of `for player in self._players`
    player,        \* the player returned by _get_player_using_phone
    player_name,   \* partial_state's argument
    phone,         \* the device _get_phone returned
    phone_scene,   \* the scene scene.build returned
    scene_output,  \* the events phone_scene.run_episode returned
    pos,           \* loop position of `for event in scene_output`
    exc,           \* the exception the call raised
    result,        \* the value partial_state returned
    trace,         \* the collaborator calls made by the current call, in order
    log0,          \* log at the start of the current call
    memory0,       \* memory at the start of the current call
    gear0,         \* gear at the start of the current call
    n_calls,       \* update_after_event calls made so far
    event_statement, \* update_after_event's argument
    document,      \* the InteractiveDocument of _get_player_from_event
    contexts,      \* the documents the per-player questions were put to
    t_pc,          \* toot: position of the current call
    login_user,    \* toot: argument
    message,       \* toot: argument
    access_token,  \* toot: the token login returned
    mastodon,      \* toot: the client get_client returned
    posts,         \* the messages posted on the server
    logged,        \* the records toot wrote to the logger
    t_trace,       \* toot: the calls made by the current call, in order
    posts0,        \* posts at the start of the current toot call
    n_toots        \* toot calls made so far

\* The state of toot (mastodon_ops/toot.py).
toot_vars == <<t_pc, login_user, message, access_token, mastodon, posts,
               logged, t_trace, posts0, n_toots>>

\* The state of the SceneTriggeringComponent.
component_vars ==
    <<players, phones, log, memory, gear, pc, op, is_phone, answers, idx,
      player, player_name, phone, phone_scene, scene_output, pos, exc,
      result, trace, log0, memory0, gear0, n_calls, event_statement,
      document, contexts>>

vars == <<component_vars, toot_vars>>

(* ------------------------------ bounds ------------------------------- *)

\* Longest output of a nested episode.
MaxOut == 2

\* Number of update_after_event calls explored.
MaxCalls == 2

\* Longest observation log and longest shared memory explored: a nested
\* episode whose output would make either longer is not explored.
MaxMem == 3

\* Number of toot calls explored.
MaxToots == 2

(* ------------------------------ values ------------------------------- *)

Actors == {"A", "B", "C", "Carol", "Dave"}

\* Names partial_state may be asked about: the actors, a differently cased
\* spelling of one, and a name nobody has.
Names == Actors \cup {"a", "Z"}

Events == {"e1", "e2"}

None == "None"

Phone(i, n, d) == [id |-> i, player_name |-> n, desc |-> d]

NoPhone == Phone(0, None, None)

\* What next() raises on an exhausted generator.
StopIteration == Phone(0, "StopIteration", None)

NoScene == [player |-> None, phone |-> NoPhone]

\* toot: no client acquired yet.
NoClient == [access_token |-> None]

dA == Phone(1, "A", "phone 1")
dB == Phone(2, "B", "phone 2")
dC == Phone(3, "C", "phone 3")
da == Phone(4, "a", "phone 4")
dA2 == Phone(5, "A", "phone 5")
dCarol == Phone(6, "Carol", "phone 6")
dDave == Phone(7, "Dave", "phone 7")

\* The rosters and device registries the component is constructed with
\* (player names are unique): every player provisioned; the registry in
\* another order with a differently cased name and a second device of one
\* player; players without a device; a single player; an empty roster;
\* Carol and Dave in either order.
Configs ==
    { <<<<"A", "B", "C">>, <<dA, dB, dC>>>>,
      <<<<"Carol", "Dave">>, <<dCarol, dDave>>>>,
      <<<<"Dave", "Carol">>, <<dCarol, dDave>>>>,
      <<<<"C", "A", "B">>, <<dC, da, dA, dA2>>>>,
      <<<<"B", "A">>, <<da, dB, dC>>>>,
      <<<<"C">>, <<dA2, dC, dA>>>>,
      <<<<>>, <<dB>>>> }

Range(s) == { s[j] : j \in 1..Len(s) }

\* Sequences over S of length at most n.
SeqUpTo(S, n) == UNION { [1..m -> S] : m \in 0..n }

Outputs == SeqUpTo(Events, MaxOut)

\* The outputs of a nested episode that keep within MaxMem.
Fits(out) ==
    /\ Len(memory) + Len(out) <= MaxMem
    /\ Len(log[player]) + Len(out) <= MaxMem

Idle == {"idle", "returned", "raised"}

\* The statements update_after_event is called with: an event of the
\* simulation, and, for a roster with Carol and Dave, the statement about
\* them.
Statements ==
    IF {"Carol", "Dave"} \subseteq Range(players)
    THEN {"Carol told Dave to check his phone"}
    ELSE {"event"}

\* An entry of an InteractiveDocument: a statement (of an event, or quoting
\* the text of a document), a question about a player, or its answer.
Line(k, w, e, q) == [kind |-> k, who |-> w, event |-> e, quoted |-> q]

\* document.statement(f"Event: {event_statement}. This event states ...")
\* on a new InteractiveDocument.
BaseDocument == <<Line("statement", None, event_statement, <<>>)>>

\* helper_functions.filter_copy_as_statement(document): a new document whose
\* one statement is the text of the given one.
filter_copy_as_statement(doc) == <<Line("statement", None, None, doc)>>

\* What yes_no_question(...) about a player adds to the document it is put to.
Asked(w, yes) ==
    <<Line("question", w, None, <<>>),
      Line("answer", w, IF yes THEN "Yes" ELSE "No", <<>>)>>

\* No question has been put to the model yet.
NoAnswers == [a \in Actors |-> FALSE]

\* The ways the model may answer the per-player question for the roster.
AnswerSets ==
    { an \in [Actors -> BOOLEAN] : \A a \in Actors \ Range(players) : ~an[a] }

Entry(s, w, ok) == [step |-> s, who |-> w, gear |-> gear, ok |-> ok]

Count(s) == Cardinality({ j \in 1..Len(trace) : trace[j].step = s })

(* ------------------------------ helpers ------------------------------ *)

RECURSIVE first_match(_, _, _)
first_match(ps, j, name) ==
    IF j > Len(ps) THEN StopIteration
    ELSE IF ps[j].player_name = name THEN ps[j]
    ELSE first_match(ps, j + 1, name)

\* The name with its letters in lower case.
lower(name) ==
    IF name = "A" THEN "a" ELSE name

RECURSIVE first_match_caseless(_, _, _)
first_match_caseless(ps, j, name) ==
    IF j > Len(ps) THEN StopIteration
    ELSE IF lower(ps[j].player_name) = lower(name) THEN ps[j]
    ELSE first_match_caseless(ps, j + 1, name)

\* As get_phone, comparing the names without regard to case.
get_phone_caseless(name) ==
    first_match_caseless(phones, 1, name)

\* As get_phone, with the first registered device as next()'s default.
get_phone_default(name) ==
    IF first_match(phones, 1, name) = StopIteration /\ phones # <<>>
    THEN phones[1]
    ELSE first_match(phones, 1, name)

\* next(p for p in self._phones if p.player_name == player_name)
get_phone(name) ==
    first_match(phones, 1, name)

\* Phone.description(): a read of the device's state.
description(p) ==
    p.desc

(* ------------------------------- Init -------------------------------- *)

Init ==
    /\ \E c \in Configs : players = c[1] /\ phones = c[2]
    /\ log = [a \in Actors |-> <<>>]
    /\ memory = <<>>
    /\ gear = "normal"
    /\ pc = "idle"
    /\ op = None
    /\ is_phone = FALSE
    /\ answers = NoAnswers
    /\ idx = 0
    /\ player = None
    /\ player_name = None
    /\ phone = NoPhone
    /\ phone_scene = NoScene
    /\ scene_output = <<>>
    /\ pos = 0
    /\ exc = None
    /\ result = None
    /\ trace = <<>>
    /\ log0 = log
    /\ memory0 = memory
    /\ gear0 = gear
    /\ n_calls = 0
    /\ event_statement = None
    /\ document = <<>>
    /\ contexts = <<>>
    /\ t_pc = "idle"
    /\ login_user = None
    /\ message = None
    /\ access_token = None
    /\ mastodon = NoClient
    /\ posts = <<>>
    /\ logged = <<>>
    /\ t_trace = <<>>
    /\ posts0 = <<>>
    /\ n_toots = 0

(* ------------------------------ actions ------------------------------ *)

\* As update_after_event, going to the per-player questions without the
\* question of _is_phone_event.
update_after_event_unclassified ==
    /\ pc \in Idle
    /\ n_calls < MaxCalls
    /\ is_phone' = TRUE
    /\ answers' \in AnswerSets
    /\ pc' = "resolve"
    /\ op' = "update_after_event"
    /\ idx' = 1
    /\ player' = None
    /\ player_name' = None
    /\ phone' = NoPhone
    /\ phone_scene' = NoScene
    /\ scene_output' = <<>>
    /\ pos' = 0
    /\ exc' = None
    /\ result' = None
    /\ trace' = <<>>
    /\ log0' = log
    /\ memory0' = memory
    /\ gear0' = gear
    /\ n_calls' = n_calls + 1
    /\ UNCHANGED <<players, phones, log, memory, gear>>
    /\ event_statement' \in Statements
    /\ document' = <<Line("statement", None, event_statement', <<>>)>>
    /\ contexts' = <<>>
    /\ UNCHANGED toot_vars

\* The outer loop calls update_after_event(event_statement).  The statement
\* is represented by the answers the language model gives about it: is_phone
\* to the question of _is_phone_event, answers to the per-player question.
update_after_event ==
    /\ pc \in Idle
    /\ n_calls < MaxCalls
    /\ is_phone' \in BOOLEAN
    /\ answers' = NoAnswers
    /\ pc' = "classify"
    /\ op' = "update_after_event"
    /\ idx' = 0
    /\ player' = None
    /\ player_name' = None
    /\ phone' = NoPhone
    /\ phone_scene' = NoScene
    /\ scene_output' = <<>>
    /\ pos' = 0
    /\ exc' = None
    /\ result' = None
    /\ trace' = <<>>
    /\ log0' = log
    /\ memory0' = memory
    /\ gear0' = gear
    /\ n_calls' = n_calls + 1
    /\ UNCHANGED <<players, phones, log, memory, gear>>
    /\ event_statement' \in Statements
    /\ document' = <<>>
    /\ contexts' = <<>>
    /\ UNCHANGED toot_vars

\* As is_phone_event, with the answer to the question ignored.
is_phone_event_answer_ignored ==
    /\ pc = "classify"
    /\ trace' = Append(trace, Entry("classify", None, TRUE))
    /\ pc' = "resolve"
    /\ idx' = 1
    /\ answers' \in AnswerSets
    /\ UNCHANGED <<players, phones, log, memory, gear, op, is_phone, exc,
                   player, player_name, phone, phone_scene, scene_output, pos,
                   result, log0, memory0, gear0, n_calls>>
    /\ document' = BaseDocument
    /\ UNCHANGED <<event_statement, contexts>>
    /\ UNCHANGED toot_vars

\* _get_player_using_phone, first part: the yes/no question of
\* _is_phone_event; on "no" it returns None and update_after_event returns.
\* On "yes" _get_player_from_event starts; what the model would answer about
\* each player of the roster is fixed from here on.
is_phone_event ==
    /\ pc = "classify"
    /\ \/ /\ trace' = Append(trace, Entry("classify", None, FALSE))
          /\ pc' = "raised"
          /\ exc' = "LanguageModelError"
          /\ UNCHANGED <<idx, answers>>
       \/ /\ trace' = Append(trace, Entry("classify", None, TRUE))
          /\ exc' = exc
          /\ IF is_phone
             THEN /\ pc' = "resolve"
                  /\ idx' = 1
                  /\ answers' \in AnswerSets
             ELSE /\ pc' = "returned"
                  /\ idx' = idx
                  /\ answers' = answers
    /\ UNCHANGED <<players, phones, log, memory, gear, op, is_phone,
                   player, player_name, phone, phone_scene, scene_output, pos,
                   result, log0, memory0, gear0, n_calls>>
    /\ document' = IF pc' = "resolve" THEN BaseDocument ELSE document
    /\ UNCHANGED <<event_statement, contexts>>
    /\ UNCHANGED toot_vars

\* As get_player_from_event, falling back to the first player of the roster
\* when nobody matched.
get_player_from_event_fallback ==
    /\ pc = "resolve"
    /\ \/ /\ idx > Len(players)
          /\ IF players = <<>>
             THEN player' = None /\ pc' = "returned"
             ELSE player' = players[1] /\ pc' = "build"
          /\ UNCHANGED <<idx, trace, exc>>
       \/ /\ idx <= Len(players)
          /\ trace' = Append(trace, Entry("ask", players[idx], TRUE))
          /\ exc' = exc
          /\ IF answers[players[idx]]
             THEN player' = players[idx] /\ pc' = "build" /\ idx' = idx
             ELSE player' = player /\ pc' = "resolve" /\ idx' = idx + 1
    /\ UNCHANGED <<players, phones, log, memory, gear, op, is_phone, answers,
                   player_name, phone, phone_scene, scene_output, pos, result,
                   log0, memory0, gear0, n_calls>>
    /\ contexts' = IF idx <= Len(players)
                   THEN Append(contexts, filter_copy_as_statement(document))
                   ELSE contexts
    /\ UNCHANGED <<event_statement, document>>
    /\ UNCHANGED toot_vars

\* As get_player_from_event, without the early return: the loop goes on
\* after a match and the last match is returned.
get_player_from_event_last_match ==
    /\ pc = "resolve"
    /\ \/ /\ idx > Len(players)
          /\ player' = player
          /\ pc' = IF player = None THEN "returned" ELSE "build"
          /\ UNCHANGED <<idx, trace, exc>>
       \/ /\ idx <= Len(players)
          /\ trace' = Append(trace, Entry("ask", players[idx], TRUE))
          /\ exc' = exc
          /\ player' = IF answers[players[idx]] THEN players[idx] ELSE player
          /\ pc' = "resolve"
          /\ idx' = idx + 1
    /\ UNCHANGED <<players, phones, log, memory, gear, op, is_phone, answers,
                   player_name, phone, phone_scene, scene_output, pos, result,
                   log0, memory0, gear0, n_calls>>
    /\ contexts' = IF idx <= Len(players)
                   THEN Append(contexts, filter_copy_as_statement(document))
                   ELSE contexts
    /\ UNCHANGED <<event_statement, document>>
    /\ UNCHANGED toot_vars

\* As get_player_from_event, with a failed question taken as a "no".
get_player_from_event_swallow ==
    /\ pc = "resolve"
    /\ \/ /\ idx > Len(players)
          /\ player' = None
          /\ pc' = "returned"
          /\ UNCHANGED <<idx, trace, exc>>
       \/ /\ idx <= Len(players)
          /\ \/ /\ trace' = Append(trace, Entry("ask", players[idx], FALSE))
                /\ pc' = "resolve"
                /\ idx' = idx + 1
                /\ UNCHANGED <<exc, player>>
             \/ /\ trace' = Append(trace, Entry("ask", players[idx], TRUE))
                /\ exc' = exc
                /\ IF answers[players[idx]]
                   THEN player' = players[idx] /\ pc' = "build" /\ idx' = idx
                   ELSE player' = player /\ pc' = "resolve" /\ idx' = idx + 1
    /\ UNCHANGED <<players, phones, log, memory, gear, op, is_phone, answers,
                   player_name, phone, phone_scene, scene_output, pos, result,
                   log0, memory0, gear0, n_calls>>
    /\ contexts' = IF idx <= Len(players)
                   THEN Append(contexts, filter_copy_as_statement(document))
                   ELSE contexts
    /\ UNCHANGED <<event_statement, document>>
    /\ UNCHANGED toot_vars

\* As get_player_from_event, with the test of the answer negated: the
\* first player answered "no" is returned.
get_player_from_event_negated ==
    /\ pc = "resolve"
    /\ \/ /\ idx > Len(players)
          /\ player' = None
          /\ pc' = "returned"
          /\ UNCHANGED <<idx, trace, exc>>
       \/ /\ idx <= Len(players)
          /\ trace' = Append(trace, Entry("ask", players[idx], TRUE))
          /\ exc' = exc
          /\ IF ~answers[players[idx]]
             THEN player' = players[idx] /\ pc' = "build" /\ idx' = idx
             ELSE player' = player /\ pc' = "resolve" /\ idx' = idx + 1
    /\ UNCHANGED <<players, phones, log, memory, gear, op, is_phone, answers,
                   player_name, phone, phone_scene, scene_output, pos, result,
                   log0, memory0, gear0, n_calls>>
    /\ contexts' = IF idx <= Len(players)
                   THEN Append(contexts, filter_copy_as_statement(document))
                   ELSE contexts
    /\ UNCHANGED <<event_statement, document>>
    /\ UNCHANGED toot_vars

\* As get_player_from_event, with the question put to the document itself
\* instead of a copy of it.
get_player_from_event_shared_document ==
    /\ pc = "resolve"
    /\ \/ /\ idx > Len(players)
          /\ player' = None
          /\ pc' = "returned"
          /\ UNCHANGED <<idx, trace, exc, contexts, document>>
       \/ /\ idx <= Len(players)
          /\ trace' = Append(trace, Entry("ask", players[idx], TRUE))
          /\ exc' = exc
          /\ contexts' = Append(contexts, document)
          /\ document' = document \o Asked(players[idx], answers[players[idx]])
          /\ IF answers[players[idx]]
             THEN player' = players[idx] /\ pc' = "build" /\ idx' = idx
             ELSE player' = player /\ pc' = "resolve" /\ idx' = idx + 1
    /\ UNCHANGED <<players, phones, log, memory, gear, op, is_phone, answers,
                   player_name, phone, phone_scene, scene_output, pos, result,
                   log0, memory0, gear0, n_calls>>
    /\ UNCHANGED event_statement
    /\ UNCHANGED toot_vars

\* One iteration of the loop of _get_player_from_event, or its exit with
\* None; update_after_event returns when the player is None.
get_player_from_event ==
    /\ pc = "resolve"
    /\ \/ /\ idx > Len(players)
          /\ player' = None
          /\ pc' = "returned"
          /\ UNCHANGED <<idx, trace, exc>>
       \/ /\ idx <= Len(players)
          /\ \/ /\ trace' = Append(trace, Entry("ask", players[idx], FALSE))
                /\ pc' = "raised"
                /\ exc' = "LanguageModelError"
                /\ UNCHANGED <<idx, player>>
             \/ /\ trace' = Append(trace, Entry("ask", players[idx], TRUE))
                /\ exc' = exc
                /\ IF answers[players[idx]]
                   THEN player' = players[idx] /\ pc' = "build" /\ idx' = idx
                   ELSE player' = player /\ pc' = "resolve" /\ idx' = idx + 1
    /\ UNCHANGED <<players, phones, log, memory, gear, op, is_phone, answers,
                   player_name, phone, phone_scene, scene_output, pos, result,
                   log0, memory0, gear0, n_calls>>
    /\ contexts' = IF idx <= Len(players)
                   THEN Append(contexts, filter_copy_as_statement(document))
                   ELSE contexts
    /\ UNCHANGED <<event_statement, document>>
    /\ UNCHANGED toot_vars

\* As build, with the with block opened before scene.build is called.
build_in_gear ==
    /\ pc = "build"
    /\ LET p == get_phone(player)
           looked == Append(trace, Entry("lookup", player, p # StopIteration))
       IN  \/ /\ p = StopIteration
              /\ trace' = looked
              /\ pc' = "raised"
              /\ exc' = "StopIteration"
              /\ UNCHANGED <<phone, phone_scene>>
           \/ /\ p # StopIteration
              /\ phone' = p
              /\ \/ /\ trace' = Append(looked, Entry("build", player, FALSE))
                    /\ pc' = "raised"
                    /\ exc' = "BuildError"
                    /\ UNCHANGED phone_scene
                 \/ /\ trace' = Append(looked, Entry("build", player, TRUE))
                    /\ phone_scene' = [player |-> player, phone |-> p]
                    /\ pc' = "gear"
                    /\ exc' = exc
    /\ UNCHANGED <<players, phones, log, memory, op, is_phone, answers,
                   idx, player, player_name, scene_output, pos, result, log0,
                   memory0, gear0, n_calls>>
    /\ gear' = IF pc' = "gear" THEN "accelerated" ELSE gear
    /\ UNCHANGED <<event_statement, document, contexts>>
    /\ UNCHANGED toot_vars

\* _run_phone_scene, first statement: the argument self._get_phone(player.name)
\* is evaluated, then scene.build is called with it.
build ==
    /\ pc = "build"
    /\ LET p == get_phone(player)
           looked == Append(trace, Entry("lookup", player, p # StopIteration))
       IN  \/ /\ p = StopIteration
              /\ trace' = looked
              /\ pc' = "raised"
              /\ exc' = "StopIteration"
              /\ UNCHANGED <<phone, phone_scene>>
           \/ /\ p # StopIteration
              /\ phone' = p
              /\ \/ /\ trace' = Append(looked, Entry("build", player, FALSE))
                    /\ pc' = "raised"
                    /\ exc' = "BuildError"
                    /\ UNCHANGED phone_scene
                 \/ /\ trace' = Append(looked, Entry("build", player, TRUE))
                    /\ phone_scene' = [player |-> player, phone |-> p]
                    /\ pc' = "gear"
                    /\ exc' = exc
    /\ UNCHANGED <<players, phones, log, memory, gear, op, is_phone, answers,
                   idx, player, player_name, scene_output, pos, result, log0,
                   memory0, gear0, n_calls>>
    /\ UNCHANGED <<event_statement, document, contexts>>
    /\ UNCHANGED toot_vars

\* `with self._clock.higher_gear():` is entered.
higher_gear ==
    /\ pc = "gear"
    /\ gear' = "accelerated"
    /\ trace' = Append(trace, Entry("gear_up", None, TRUE))
    /\ pc' = "run"
    /\ UNCHANGED <<players, phones, log, memory, op, is_phone, answers, idx,
                   player, player_name, phone, phone_scene, scene_output, pos,
                   exc, result, log0, memory0, gear0, n_calls>>
    /\ UNCHANGED <<event_statement, document, contexts>>
    /\ UNCHANGED toot_vars

\* As run_episode, with the gear put back only on the normal way out of the
\* block (gear_up/gear_down calls without a scope guard).
run_episode_no_guard ==
    /\ pc = "run"
    /\ \/ /\ trace' = Append(trace, Entry("run", player, FALSE))
          /\ gear' = gear
          /\ pc' = "raised"
          /\ exc' = "EpisodeError"
          /\ UNCHANGED <<scene_output, pos>>
       \/ /\ trace' = Append(Append(trace, Entry("run", player, TRUE)),
                             [Entry("gear_down", None, TRUE) EXCEPT !.gear = "normal"])
          /\ gear' = "normal"
          /\ \E out \in Outputs :
                /\ Fits(out)
                /\ scene_output' = out
                /\ IF out = <<>>
                   THEN pc' = "returned" /\ pos' = pos
                   ELSE pc' = "merge" /\ pos' = 1
          /\ exc' = exc
    /\ UNCHANGED <<players, phones, log, memory, op, is_phone, answers, idx,
                   player, player_name, phone, phone_scene, result, log0,
                   memory0, gear0, n_calls>>
    /\ UNCHANGED <<event_statement, document, contexts>>
    /\ UNCHANGED toot_vars

\* As run_episode, with the merge loop inside the with block: the gear is
\* still the higher one while the output is merged.
run_episode_merge_in_gear ==
    /\ pc = "run"
    /\ \/ /\ trace' = Append(Append(trace, Entry("run", player, FALSE)),
                             [Entry("gear_down", None, TRUE) EXCEPT !.gear = "normal"])
          /\ pc' = "raised"
          /\ exc' = "EpisodeError"
          /\ UNCHANGED <<scene_output, pos>>
       \/ /\ trace' = Append(Append(trace, Entry("run", player, TRUE)),
                             [Entry("gear_down", None, TRUE) EXCEPT !.gear = "normal"])
          /\ \E out \in Outputs :
                /\ Fits(out)
                /\ scene_output' = out
                /\ IF out = <<>>
                   THEN pc' = "returned" /\ pos' = pos
                   ELSE pc' = "merge" /\ pos' = 1
          /\ exc' = exc
    /\ gear' = IF pc' = "merge" THEN gear ELSE "normal"
    /\ UNCHANGED <<players, phones, log, memory, op, is_phone, answers, idx,
                   player, player_name, phone, phone_scene, result, log0,
                   memory0, gear0, n_calls>>
    /\ UNCHANGED <<event_statement, document, contexts>>
    /\ UNCHANGED toot_vars

\* phone_scene.run_episode() inside the with block; the block is left, by
\* the return or by the exception, and the gear is put back.
run_episode ==
    /\ pc = "run"
    /\ gear' = "normal"
    /\ \/ /\ trace' = Append(Append(trace, Entry("run", player, FALSE)),
                             [Entry("gear_down", None, TRUE) EXCEPT !.gear = "normal"])
          /\ pc' = "raised"
          /\ exc' = "EpisodeError"
          /\ UNCHANGED <<scene_output, pos>>
       \/ /\ trace' = Append(Append(trace, Entry("run", player, TRUE)),
                             [Entry("gear_down", None, TRUE) EXCEPT !.gear = "normal"])
          /\ \E out \in Outputs :
                /\ Fits(out)
                /\ scene_output' = out
                /\ IF out = <<>>
                   THEN pc' = "returned" /\ pos' = pos
                   ELSE pc' = "merge" /\ pos' = 1
          /\ exc' = exc
    /\ UNCHANGED <<players, phones, log, memory, op, is_phone, answers, idx,
                   player, player_name, phone, phone_scene, result, log0,
                   memory0, gear0, n_calls>>
    /\ UNCHANGED <<event_statement, document, contexts>>
    /\ UNCHANGED toot_vars

\* As observe, with a failure of the player's observe caught and the
\* loop carrying on with the memory's add.
observe_swallow ==
    /\ pc = "merge"
    /\ \/ /\ trace' = Append(trace, Entry("observe", player, FALSE))
          /\ log' = log
       \/ /\ trace' = Append(trace, Entry("observe", player, TRUE))
          /\ log' = [log EXCEPT ![player] = Append(@, scene_output[pos])]
    /\ pc' = "add"
    /\ UNCHANGED <<players, phones, memory, gear, op, is_phone, answers, idx,
                   player, player_name, phone, phone_scene, scene_output, pos,
                   exc, result, log0, memory0, gear0, n_calls>>
    /\ UNCHANGED <<event_statement, document, contexts>>
    /\ UNCHANGED toot_vars

\* As observe, with the event put at the front of the player's log.
observe_prepend ==
    /\ pc = "merge"
    /\ trace' = Append(trace, Entry("observe", player, TRUE))
    /\ log' = [log EXCEPT ![player] = <<scene_output[pos]>> \o @]
    /\ pc' = "add"
    /\ UNCHANGED <<players, phones, memory, gear, op, is_phone, answers, idx,
                   player, player_name, phone, phone_scene, scene_output, pos,
                   exc, result, log0, memory0, gear0, n_calls>>
    /\ UNCHANGED <<event_statement, document, contexts>>
    /\ UNCHANGED toot_vars

\* As observe, with every player of the roster observing the event.
observe_all ==
    /\ pc = "merge"
    /\ trace' = Append(trace, Entry("observe", player, TRUE))
    /\ log' = [a \in Actors |->
                 IF a \in Range(players)
                 THEN Append(log[a], scene_output[pos])
                 ELSE log[a]]
    /\ pc' = "add"
    /\ UNCHANGED <<players, phones, memory, gear, op, is_phone, answers, idx,
                   player, player_name, phone, phone_scene, scene_output, pos,
                   exc, result, log0, memory0, gear0, n_calls>>
    /\ UNCHANGED <<event_statement, document, contexts>>
    /\ UNCHANGED toot_vars

\* As observe, with the whole output observed before anything is added
\* to the memory.
observe_batch ==
    /\ pc = "merge"
    /\ trace' = Append(trace, Entry("observe", player, TRUE))
    /\ log' = [log EXCEPT ![player] =
                 IF pos = 1 THEN @ \o scene_output ELSE @]
    /\ pc' = "add"
    /\ UNCHANGED <<players, phones, memory, gear, op, is_phone, answers, idx,
                   player, player_name, phone, phone_scene, scene_output, pos,
                   exc, result, log0, memory0, gear0, n_calls>>
    /\ UNCHANGED <<event_statement, document, contexts>>
    /\ UNCHANGED toot_vars

\* player.observe(event) for the event at the loop position.
observe ==
    /\ pc = "merge"
    /\ \/ /\ trace' = Append(trace, Entry("observe", player, FALSE))
          /\ pc' = "raised"
          /\ exc' = "ObserveError"
          /\ log' = log
       \/ /\ trace' = Append(trace, Entry("observe", player, TRUE))
          /\ log' = [log EXCEPT ![player] = Append(@, scene_output[pos])]
          /\ pc' = "add"
          /\ exc' = exc
    /\ UNCHANGED <<players, phones, memory, gear, op, is_phone, answers, idx,
                   player, player_name, phone, phone_scene, scene_output, pos,
                   result, log0, memory0, gear0, n_calls>>
    /\ UNCHANGED <<event_statement, document, contexts>>
    /\ UNCHANGED toot_vars

\* As memory_add, with an event text the memory already holds not added again.
memory_add_dedup ==
    /\ pc = "add"
    /\ trace' = Append(trace, Entry("add", player, TRUE))
    /\ memory' = IF scene_output[pos] \in Range(memory)
                 THEN memory
                 ELSE Append(memory, scene_output[pos])
    /\ pos' = pos + 1
    /\ pc' = IF pos = Len(scene_output) THEN "returned" ELSE "merge"
    /\ UNCHANGED <<players, phones, log, gear, op, is_phone, answers, idx,
                   player, player_name, phone, phone_scene, scene_output, exc,
                   result, log0, memory0, gear0, n_calls>>
    /\ UNCHANGED <<event_statement, document, contexts>>
    /\ UNCHANGED toot_vars

\* As memory_add, with the roster gone through to its end: after the merge
\* the players after the resolved one are asked too, and a scene is run for
\* each that matches.
memory_add_next_player ==
    /\ pc = "add"
    /\ trace' = Append(trace, Entry("add", player, TRUE))
    /\ memory' = Append(memory, scene_output[pos])
    /\ pos' = pos + 1
    /\ IF pos < Len(scene_output)
       THEN pc' = "merge" /\ idx' = idx
       ELSE IF idx < Len(players)
            THEN pc' = "resolve" /\ idx' = idx + 1
            ELSE pc' = "returned" /\ idx' = idx
    /\ UNCHANGED <<players, phones, log, gear, op, is_phone, answers,
                   player, player_name, phone, phone_scene, scene_output, exc,
                   result, log0, memory0, gear0, n_calls>>
    /\ UNCHANGED <<event_statement, document, contexts>>
    /\ UNCHANGED toot_vars

\* self._memory.add(event) for the same event, then the loop moves on;
\* after the last event _run_phone_scene and update_after_event return.
memory_add ==
    /\ pc = "add"
    /\ \/ /\ trace' = Append(trace, Entry("add", player, FALSE))
          /\ pc' = "raised"
          /\ exc' = "MemoryError"
          /\ UNCHANGED <<memory, pos>>
       \/ /\ trace' = Append(trace, Entry("add", player, TRUE))
          /\ memory' = Append(memory, scene_output[pos])
          /\ pos' = pos + 1
          /\ pc' = IF pos = Len(scene_output) THEN "returned" ELSE "merge"
          /\ exc' = exc
    /\ UNCHANGED <<players, phones, log, gear, op, is_phone, answers, idx,
                   player, player_name, phone, phone_scene, scene_output,
                   result, log0, memory0, gear0, n_calls>>
    /\ UNCHANGED <<event_statement, document, contexts>>
    /\ UNCHANGED toot_vars

\* As partial_state, answering with the first registered device's
\* description when the name has no device.
partial_state_default ==
    /\ pc \in Idle
    /\ \E n \in Names :
          LET p == get_phone(n)
          IN  /\ player_name' = n
              /\ trace' = <<Entry("lookup", n, p # StopIteration)>>
              /\ pc' = "returned"
              /\ exc' = None
              /\ result' = IF p = StopIteration
                           THEN description(phones[1])
                           ELSE description(p)
    /\ op' = "partial_state"
    /\ idx' = 0
    /\ player' = None
    /\ phone' = NoPhone
    /\ phone_scene' = NoScene
    /\ scene_output' = <<>>
    /\ pos' = 0
    /\ log0' = log
    /\ memory0' = memory
    /\ gear0' = gear
    /\ is_phone' = FALSE
    /\ answers' = NoAnswers
    /\ UNCHANGED <<players, phones, log, memory, gear, n_calls>>
    /\ event_statement' = None
    /\ document' = <<>>
    /\ contexts' = <<>>
    /\ UNCHANGED toot_vars

\* partial_state(player_name): self._get_phone(player_name).description()
partial_state ==
    /\ pc \in Idle
    /\ \E n \in Names :
          LET p == get_phone(n)
          IN  /\ player_name' = n
              /\ trace' = <<Entry("lookup", n, p # StopIteration)>>
              /\ IF p = StopIteration
                 THEN pc' = "raised" /\ exc' = "StopIteration" /\ result' = None
                 ELSE pc' = "returned" /\ exc' = None /\ result' = description(p)
    /\ op' = "partial_state"
    /\ idx' = 0
    /\ player' = None
    /\ phone' = NoPhone
    /\ phone_scene' = NoScene
    /\ scene_output' = <<>>
    /\ pos' = 0
    /\ log0' = log
    /\ memory0' = memory
    /\ gear0' = gear
    /\ is_phone' = FALSE
    /\ answers' = NoAnswers
    /\ UNCHANGED <<players, phones, log, memory, gear, n_calls>>
    /\ event_statement' = None
    /\ document' = <<>>
    /\ contexts' = <<>>
    /\ UNCHANGED toot_vars

Next ==
    \/ update_after_event
    \/ is_phone_event
    \/ get_player_from_event
    \/ build
    \/ higher_gear
    \/ run_episode
    \/ observe
    \/ memory_add
    \/ partial_state

Spec == Init /\ [][Next]_vars

(* ------------------------- toot (toot.py) ---------------------------- *)

Users == {"alice", "bob"}

Messages == {"m1", "m2"}

\* The access tokens login may return.
Tokens == {"token 1", "token 2"}

\* The exceptions login, get_client and Mastodon.toot may raise: a
\* ValueError, or another Exception.
ExcKinds == {"ValueError", "Exception"}

Call(c, ok, k) == [call |-> c, ok |-> ok, kind |-> k]

\* The except clauses of toot: logger.error for a ValueError,
\* logger.exception for any other Exception.
handler(k) ==
    [level |-> IF k = "ValueError" THEN "error" ELSE "exception",
     user |-> login_user]

\* toot(login_user, message) is called: load_dotenv, then the try block.
toot ==
    /\ t_pc \in {"idle", "returned"}
    /\ n_toots < MaxToots
    /\ login_user' \in Users
    /\ message' \in Messages
    /\ access_token' = None
    /\ mastodon' = NoClient
    /\ t_trace' = <<>>
    /\ posts0' = posts
    /\ n_toots' = n_toots + 1
    /\ t_pc' = "login"
    /\ UNCHANGED <<posts, logged>>
    /\ UNCHANGED component_vars

\* As toot_login, with a failure of login caught on the spot and the rest
\* of the try block carried out.
toot_login_carries_on ==
    /\ t_pc = "login"
    /\ \/ \E k \in ExcKinds :
             /\ t_trace' = Append(t_trace, Call("login", FALSE, k))
             /\ logged' = Append(logged, handler(k))
             /\ access_token' = access_token
       \/ \E t \in Tokens :
             /\ t_trace' = Append(t_trace, Call("login", TRUE, None))
             /\ access_token' = t
             /\ logged' = logged
    /\ t_pc' = "get_client"
    /\ UNCHANGED <<login_user, message, mastodon, posts, posts0, n_toots>>
    /\ UNCHANGED component_vars

\* access_token = login(login_user)
toot_login ==
    /\ t_pc = "login"
    /\ \/ \E k \in ExcKinds :
             /\ t_trace' = Append(t_trace, Call("login", FALSE, k))
             /\ logged' = Append(logged, handler(k))
             /\ t_pc' = "returned"
             /\ access_token' = access_token
       \/ \E t \in Tokens :
             /\ t_trace' = Append(t_trace, Call("login", TRUE, None))
             /\ access_token' = t
             /\ t_pc' = "get_client"
             /\ logged' = logged
    /\ UNCHANGED <<login_user, message, mastodon, posts, posts0, n_toots>>
    /\ UNCHANGED component_vars

\* mastodon = get_client(); mastodon.access_token = access_token; then the
\* debug record.
toot_get_client ==
    /\ t_pc = "get_client"
    /\ \/ \E k \in ExcKinds :
             /\ t_trace' = Append(t_trace, Call("get_client", FALSE, k))
             /\ logged' = Append(logged, handler(k))
             /\ t_pc' = "returned"
             /\ mastodon' = mastodon
       \/ /\ t_trace' = Append(t_trace, Call("get_client", TRUE, None))
          /\ mastodon' = [access_token |-> access_token]
          /\ logged' = Append(logged, [level |-> "debug", user |-> login_user])
          /\ t_pc' = "post"
    /\ UNCHANGED <<login_user, message, access_token, posts, posts0, n_toots>>
    /\ UNCHANGED component_vars

\* mastodon.toot(message), then the info record.
toot_post ==
    /\ t_pc = "post"
    /\ \/ \E k \in ExcKinds :
             /\ t_trace' = Append(t_trace, Call("toot", FALSE, k))
             /\ logged' = Append(logged, handler(k))
             /\ posts' = posts
       \/ /\ t_trace' = Append(t_trace, Call("toot", TRUE, None))
          /\ posts' = Append(posts, [access_token |-> mastodon.access_token,
                                     message |-> message])
          /\ logged' = Append(logged, [level |-> "info", user |-> login_user])
    /\ t_pc' = "returned"
    /\ UNCHANGED <<login_user, message, access_token, mastodon, posts0,
                   n_toots>>
    /\ UNCHANGED component_vars

NextToot ==
    \/ toot
    \/ toot_login
    \/ toot_get_client
    \/ toot_post

SpecToot == Init /\ [][NextToot]_vars

(* ------------------------------ claims ------------------------------- *)

Ended == pc \in {"returned", "raised"}

InUpdate == op = "update_after_event"

\* The per-player questions asked by the current call, in order.
Asks == SelectSeq(trace, LAMBDA e : e.step = "ask")

\* The roster positions whose player the model would answer "yes" about.
TrueAt == { j \in 1..Len(players) : answers[players[j]] }

FirstTrue == CHOOSE j \in TrueAt : \A k \in TrueAt : j <= k

\* Nothing beyond the questions has happened in the current call.
NoEffect ==
    /\ Count("lookup") = 0
    /\ Count("build") = 0
    /\ Count("gear_up") = 0
    /\ Count("run") = 0
    /\ phone = NoPhone
    /\ phone_scene = NoScene
    /\ gear = gear0
    /\ \A j \in 1..Len(trace) : trace[j].gear = "normal"
    /\ log = log0
    /\ memory = memory0

\* C1: when the classifier answers false about the statement,
\* update_after_event asks no per-player question, looks up no device,
\* builds no scene, never enters the higher gear and leaves every player's
\* log and the shared memory as they were when the call started.
C1_ClassifiedFalseNoEffect ==
    (InUpdate /\ ~is_phone) =>
        /\ Count("ask") = 0
        /\ player = None
        /\ NoEffect
        /\ pc \in {"classify", "returned", "raised"}

\* A second-or-later call, on a non-empty roster and a non-empty memory,
\* that returned after the classifier's "no".
C1_Witness ==
    /\ InUpdate /\ ~is_phone /\ pc = "returned"
    /\ Len(trace) = 1 /\ trace[1].step = "classify" /\ trace[1].ok
    /\ players # <<>> /\ memory # <<>>

\* C2: when the classifier answers true and the per-player question is
\* answered false for every player of the roster, update_after_event looks
\* up no device, builds no scene, leaves the gear alone and leaves every
\* player's log and the shared memory unchanged.
C2_NobodyResolvedNoEffect ==
    (InUpdate /\ is_phone /\ pc # "classify" /\ TrueAt = {}) =>
        /\ player = None
        /\ NoEffect
        /\ pc \in {"resolve", "returned", "raised"}

\* A call that asked about each of at least two players, got "no" each
\* time and returned, with events of an earlier call in the memory.
C2_Witness ==
    /\ InUpdate /\ is_phone /\ pc = "returned" /\ TrueAt = {}
    /\ Len(players) >= 2 /\ Len(Asks) = Len(players)
    /\ memory # <<>>

\* C3: when the scene of the resolved player completed with an output and
\* update_after_event returns, the player's log is its log at the start of
\* the call followed by the output, and the shared memory is its contents at
\* the start of the call followed by the output, in the output's order.
C3_MergeOrder ==
    (InUpdate /\ pc = "returned" /\ player # None) =>
        /\ log[player] = log0[player] \o scene_output
        /\ memory = memory0 \o scene_output

\* A returned call whose output repeats an event text that the player's log
\* and the memory already held.
C3_Witness ==
    /\ InUpdate /\ pc = "returned" /\ player # None
    /\ Len(scene_output) = 2 /\ scene_output[1] = scene_output[2]
    /\ log0[player] # <<>> /\ scene_output[1] \in Range(memory0)

\* C4: whenever update_after_event returns or raises, the gear is the gear
\* the call started in.
C4_GearRestored ==
    (InUpdate /\ Ended) => gear = gear0

\* A call that entered the higher gear and whose nested episode failed.
C4_Witness ==
    /\ InUpdate /\ pc = "raised" /\ exc = "EpisodeError"
    /\ Count("gear_up") = 1
    /\ \E j \in 1..Len(trace) : trace[j].step = "run" /\ trace[j].gear = "accelerated"

\* C5: the questions are asked in roster order, none after the first "yes";
\* the resolver returns the player at the smallest roster position whose
\* answer is "yes", and None exactly when every answer is "no".
C5_FirstMatch ==
    (InUpdate /\ is_phone /\ pc # "classify") =>
        /\ Len(Asks) <= Len(players)
        /\ \A j \in 1..Len(Asks) : Asks[j].who = players[j]
        /\ TrueAt # {} => Len(Asks) <= FirstTrue
        /\ pc = "resolve" => player = None
        /\ (pc # "resolve" /\ exc # "LanguageModelError") =>
               IF TrueAt = {}
               THEN player = None /\ Len(Asks) = Len(players)
               ELSE player = players[FirstTrue] /\ Len(Asks) = FirstTrue

\* A roster of three whose first two players would both be answered "yes":
\* the first was returned and its scene merged.
C5_Witness ==
    /\ InUpdate /\ pc = "returned" /\ Len(players) = 3
    /\ answers[players[1]] /\ answers[players[2]]
    /\ player = players[1] /\ Len(Asks) = 1
    /\ scene_output # <<>>

\* The events of the current call's output found in the player's log and
\* in the shared memory.
InLog == IF player = None THEN 0 ELSE Len(log[player]) - Len(log0[player])

InMemory == Len(memory) - Len(memory0)

\* C6 as stated: when update_after_event returns or raises, either none or
\* all of the output has been applied to the player's log and to the memory.
C6_AllOrNothing ==
    (InUpdate /\ Ended) =>
        \/ log = log0 /\ memory = memory0
        \/ /\ player # None
           /\ log[player] = log0[player] \o scene_output
           /\ memory = memory0 \o scene_output

\* C6 as amended: when update_after_event returns or raises, the events
\* applied are a prefix of the output, the same in the player's log and in
\* the memory except that the log may hold one more; all of the output on a
\* return, none of it on a failure before the merge loop, and the events
\* before the failing one (plus, in the log only, the event whose add
\* failed) when observe or add fails.
C6_MergePrefix ==
    (InUpdate /\ Ended) =>
        /\ \A a \in Actors \ {player} : log[a] = log0[a]
        /\ player = None => memory = memory0
        /\ player # None =>
              /\ InLog \in 0..Len(scene_output)
              /\ InMemory \in 0..InLog
              /\ log[player] = log0[player] \o SubSeq(scene_output, 1, InLog)
              /\ memory = memory0 \o SubSeq(scene_output, 1, InMemory)
              /\ pc = "returned" => InMemory = Len(scene_output)
              /\ (pc = "raised" /\ exc \notin {"ObserveError", "MemoryError"}) =>
                     InLog = 0
              /\ exc = "ObserveError" =>
                     InLog = InMemory /\ InLog < Len(scene_output)
              /\ exc = "MemoryError" => InLog = InMemory + 1

\* The add of the second of two events failed: the first event is in the
\* log and in the memory, the second in the log only.
C6_Witness ==
    /\ InUpdate /\ pc = "raised" /\ exc = "MemoryError"
    /\ Len(scene_output) = 2 /\ InLog = 2 /\ InMemory = 1

NoDeviceFor(name) == \A j \in 1..Len(phones) : phones[j].player_name # name

Lookups == SelectSeq(trace, LAMBDA e : e.step = "lookup")

\* C7: the registry is looked up with the resolved player's name, and the
\* device found, the one the scene is built with, is a registered device
\* whose player_name is that name.
C7_DeviceOfPlayer ==
    InUpdate =>
        /\ \A j \in 1..Len(Lookups) : Lookups[j].who = player /\ player # None
        /\ (phone # NoPhone \/ phone_scene # NoScene) =>
              /\ Len(Lookups) = 1
              /\ phone \in Range(phones)
              /\ phone.player_name = player
        /\ phone_scene # NoScene =>
              /\ phone_scene.player = player
              /\ phone_scene.phone = phone

\* A scene built with the player's device where the registry holds, before
\* it, a device registered under the same name in another case.
C7_Witness ==
    /\ InUpdate /\ phone_scene # NoScene
    /\ \E j \in 1..Len(phones) : \E k \in 1..(j - 1) :
          /\ phones[j] = phone_scene.phone
          /\ phones[k].player_name # player
          /\ lower(phones[k].player_name) = lower(player)

\* C8: when the statement is resolved to a player no registered device is
\* named after, update_after_event raises, after one lookup, with no scene
\* built or run, the higher gear never entered, and every log and the
\* memory as they were when the call started.
C8_MissingDeviceRaises ==
    (InUpdate /\ player # None /\ NoDeviceFor(player) /\ pc # "build") =>
        /\ pc = "raised"
        /\ exc = "StopIteration"
        /\ Len(Lookups) = 1
        /\ Count("build") = 0
        /\ Count("gear_up") = 0
        /\ Count("run") = 0
        /\ phone = NoPhone
        /\ phone_scene = NoScene
        /\ gear = gear0
        /\ log = log0
        /\ memory = memory0

\* The call raised for a player whose name only differs in case from a
\* registered one, with events of an earlier call in the memory.
C8_Witness ==
    /\ InUpdate /\ pc = "raised" /\ exc = "StopIteration"
    /\ player # None /\ NoDeviceFor(player)
    /\ \E j \in 1..Len(phones) : lower(phones[j].player_name) = lower(player)
    /\ memory # <<>>

\* The calls of the language model and of the nested episode that failed.
FailedAt ==
    { j \in 1..Len(trace) :
        ~trace[j].ok /\ trace[j].step \in {"classify", "ask", "run"} }

\* C9: when the language model fails on the classifier's or on a player's
\* question, or the nested episode fails, update_after_event raises: the
\* failed call was made once and nothing was called after it but the exit
\* from the higher gear, the gear is normal when the episode's failure
\* reaches the caller, and no log and no memory has changed.
C9_FailurePropagates ==
    InUpdate =>
        \A j \in FailedAt :
            /\ pc = "raised"
            /\ exc = IF trace[j].step = "run"
                     THEN "EpisodeError"
                     ELSE "LanguageModelError"
            /\ Cardinality({ k \in 1..Len(trace) :
                                /\ trace[k].step = trace[j].step
                                /\ trace[k].who = trace[j].who }) = 1
            /\ IF trace[j].step = "run"
               THEN /\ Len(trace) = j + 1
                    /\ trace[j + 1].step = "gear_down"
                    /\ gear = "normal"
               ELSE Len(trace) = j
            /\ log = log0
            /\ memory = memory0

\* The question about the second player of the roster failed, in a call
\* made when the memory already held events.
C9_Witness ==
    /\ InUpdate /\ pc = "raised" /\ exc = "LanguageModelError"
    /\ Len(Asks) = 2 /\ Asks[1].ok /\ ~Asks[2].ok
    /\ memory # <<>>

\* C10: partial_state asks the model nothing, builds and runs no scene,
\* leaves the gear, the logs and the memory alone, and returns the
\* description of the first registered device named player_name; it raises
\* when there is none.
C10_PartialState ==
    op = "partial_state" =>
        /\ Ended
        /\ Len(trace) = 1
        /\ trace[1].step = "lookup" /\ trace[1].who = player_name
        /\ phone_scene = NoScene
        /\ gear = gear0
        /\ log = log0
        /\ memory = memory0
        /\ IF NoDeviceFor(player_name)
           THEN pc = "raised" /\ exc = "StopIteration" /\ result = None
           ELSE /\ pc = "returned"
                /\ \E j \in 1..Len(phones) :
                      /\ phones[j].player_name = player_name
                      /\ \A k \in 1..(j - 1) : phones[k].player_name # player_name
                      /\ result = phones[j].desc

\* partial_state returned the description of a device that is not the
\* first of the registry, after events were merged.
C10_Witness ==
    /\ op = "partial_state" /\ pc = "returned"
    /\ phones[1].player_name # player_name
    /\ result # None
    /\ memory # <<>>

\* The step that may come right before step s in a call.
Before(s) ==
    CASE s = "classify" -> {}
      [] s = "ask" -> {"classify", "ask"}
      [] s = "lookup" -> {"ask"}
      [] s = "build" -> {"lookup"}
      [] s = "gear_up" -> {"build"}
      [] s = "run" -> {"gear_up"}
      [] s = "gear_down" -> {"run"}
      [] s = "observe" -> {"gear_down", "add"}
      [] s = "add" -> {"observe"}

\* C11: within one update_after_event call the steps come in the order
\* classify, the per-player questions, device lookup, scene build, entry
\* into the higher gear, episode run, exit from the gear, then observe and
\* add per event; a step follows only a step that succeeded with a positive
\* outcome (the classifier's yes, a player's yes, a device found, a scene
\* built, an episode completed), and nothing follows a failure, a "no" of
\* the classifier, or a roster gone through without a "yes".
C11_PipelineOrder ==
    InUpdate =>
        /\ pc # "classify" => Len(trace) >= 1
        /\ \A j \in 1..Len(trace) :
              /\ j = 1 => trace[j].step = "classify"
              /\ j > 1 =>
                    /\ trace[j - 1].step \in Before(trace[j].step)
                    /\ trace[j - 1].ok \/ trace[j].step = "gear_down"
              /\ trace[j].step = "ask" => is_phone
              /\ (trace[j].step = "ask" /\ j > 1 /\ trace[j - 1].step = "ask") =>
                    ~answers[trace[j - 1].who]
              /\ trace[j].step = "lookup" =>
                    /\ answers[trace[j - 1].who]
                    /\ trace[j - 1].who = player
              /\ (trace[j].step = "observe" /\ trace[j - 1].step = "gear_down") =>
                    trace[j - 2].ok
        /\ (pc = "returned" /\ ~is_phone) => Len(trace) = 1
        /\ (pc = "returned" /\ is_phone /\ player = None) =>
              trace[Len(trace)].step \in {"classify", "ask"}
        /\ (pc = "returned" /\ player # None) =>
              trace[Len(trace)].step \in {"gear_down", "add"}

\* A call that went through every step: two players asked, the second
\* resolved, its scene run and two events merged.
C11_Witness ==
    /\ InUpdate /\ pc = "returned"
    /\ Len(Asks) = 2 /\ player = players[2]
    /\ Len(scene_output) = 2
    /\ Len(trace) = 12

IsPrefix(a, b) == Len(a) <= Len(b) /\ SubSeq(b, 1, Len(a)) = a

\* C12: over any sequence of calls, failing ones included, every step
\* leaves the shared memory and every player's log as they were or with
\* events appended: what an earlier call merged stays, unchanged and in
\* place, as a prefix of the contents in every later state.
C12_AppendOnly ==
    [][/\ IsPrefix(memory, memory')
       /\ \A a \in Actors : IsPrefix(log[a], log'[a])]_vars

\* A later call failed in its merge, the memory and the player's log
\* holding events of an earlier call.
C12_Witness ==
    /\ InUpdate /\ n_calls = 2 /\ pc = "raised" /\ exc = "MemoryError"
    /\ memory0 # <<>> /\ player # None /\ log0[player] # <<>>
    /\ IsPrefix(memory0, memory) /\ IsPrefix(log0[player], log[player])

Observes == SelectSeq(trace, LAMBDA e : e.step = "observe")

\* C13: when update_after_event runs a scene for a player, observe is
\* called on that player only, and the log of every other player is as it
\* was when the call started; the events reach the others through the
\* shared memory, which holds them when the call returns.
C13_OnlyResolvedObserves ==
    InUpdate =>
        /\ \A j \in 1..Len(Observes) : Observes[j].who = player /\ player # None
        /\ \A a \in Actors \ {player} : log[a] = log0[a]
        /\ (pc = "returned" /\ player # None) =>
              memory = memory0 \o scene_output

\* A scene's events were merged for one player of a roster in which another
\* player holds observations of an earlier call.
C13_Witness ==
    /\ InUpdate /\ pc = "returned" /\ player # None
    /\ scene_output # <<>> /\ Len(Observes) = Len(scene_output)
    /\ \E a \in Range(players) \ {player} : log[a] # <<>> /\ log[a] = log0[a]

\* The call is about the statement of Carol and Dave and its resolver
\* has returned.
CarolDaveResolved ==
    /\ InUpdate
    /\ event_statement = "Carol told Dave to check his phone"
    /\ {"Carol", "Dave"} \subseteq Range(players)
    /\ is_phone
    /\ pc \notin {"classify", "resolve"}
    /\ exc # "LanguageModelError"

\* C14 as stated: for the statement "Carol told Dave to check his phone"
\* and a roster with Carol and Dave, the resolver returns Dave or None,
\* never Carol.
C14_NeverCarol ==
    CarolDaveResolved => player \in {"Dave", None}

\* What the code does establish for C14: for that statement and roster the resolver returns Carol
\* only when the model answers "yes" to the question about Carol (and Carol
\* stands before Dave or Dave is answered "no"); when it answers "no" about
\* Carol, the resolver returns Dave if the answer about Dave is "yes" and
\* None otherwise.
C14_CarolOnlyOnYes ==
    CarolDaveResolved =>
        /\ player = "Carol" => answers["Carol"]
        /\ ~answers["Carol"] =>
              player = IF answers["Dave"] THEN "Dave" ELSE None
        /\ (answers["Carol"] /\ answers["Dave"]) => player = players[1]
        /\ (answers["Carol"] /\ ~answers["Dave"]) => player = "Carol"

\* With Carol before Dave, the model answered "no" about Carol and "yes"
\* about Dave: Dave was returned and his scene merged.
C14_Witness ==
    /\ CarolDaveResolved /\ pc = "returned"
    /\ players = <<"Carol", "Dave">>
    /\ ~answers["Carol"] /\ answers["Dave"]
    /\ player = "Dave" /\ Len(Asks) = 2
    /\ scene_output # <<>>

\* The observe and add steps of the current call's merge, in order.
Merges == SelectSeq(trace, LAMBDA e : e.step \in {"observe", "add"})

\* C15: in the merge, each event is observed by the player and then added
\* to the memory before the next event is touched: the steps alternate
\* observe, add, and in every state the player's log holds as many of the
\* call's events as the memory, or one more.
C15_ObserveThenAdd ==
    InUpdate =>
        /\ \A j \in 1..Len(Merges) :
              Merges[j].step = IF j % 2 = 1 THEN "observe" ELSE "add"
        /\ InLog - InMemory \in {0, 1}
        /\ InMemory <= InLog
        /\ pc = "merge" =>
              /\ InLog = pos - 1 /\ InMemory = pos - 1
        /\ pc = "add" =>
              /\ InLog = pos /\ InMemory = pos - 1
              /\ log[player][Len(log[player])] = scene_output[pos]
        /\ player # None =>
              /\ log[player] = log0[player] \o SubSeq(scene_output, 1, InLog)
              /\ memory = memory0 \o SubSeq(scene_output, 1, InMemory)

\* Between the observe and the add of the second event: the first event is
\* in the log and the memory, the second in the log only.
C15_Witness ==
    /\ InUpdate /\ pc = "add" /\ pos = 2
    /\ InLog = 2 /\ InMemory = 1
    /\ scene_output[1] # scene_output[2]

\* The steps s of the current call that succeeded.
Done(s) == { j \in 1..Len(trace) : trace[j].step = s /\ trace[j].ok }

\* C16: each update_after_event call looks up at most one device, builds
\* and runs at most one scene, for the one resolved player, and merges that
\* run's output once: each event of the output is observed once and added to
\* the memory once, however many players would be answered "yes".
C16_OneDispatch ==
    InUpdate =>
        /\ Count("lookup") <= 1
        /\ Count("build") <= 1
        /\ Count("gear_up") <= 1
        /\ Count("run") <= 1
        /\ \A j \in 1..Len(trace) :
              trace[j].step \in {"lookup", "build", "run", "observe", "add"} =>
                  trace[j].who = player
        /\ Cardinality(Done("observe")) = InLog
        /\ Cardinality(Done("add")) = InMemory
        /\ InLog <= Len(scene_output)
        /\ Count("observe") > 0 => Cardinality(Done("run")) = 1
        /\ (pc = "returned" /\ player # None) =>
              /\ Cardinality(Done("run")) = 1
              /\ Cardinality(Done("observe")) = Len(scene_output)
              /\ Cardinality(Done("add")) = Len(scene_output)
              /\ log[player] = log0[player] \o scene_output
              /\ memory = memory0 \o scene_output

\* Two players of the roster would be answered "yes"; one scene was run,
\* for the first of them, and its two events merged.
C16_Witness ==
    /\ InUpdate /\ pc = "returned" /\ Cardinality(TrueAt) >= 2
    /\ player = players[FirstTrue]
    /\ Count("run") = 1 /\ Len(scene_output) = 2
    /\ Count("observe") = 2 /\ Count("add") = 2

\* C17: every per-player question is put to a fresh copy of the one
\* document of _get_player_from_event, and the document itself is never
\* written after its opening statement: the question about the player at any
\* roster position sees what the question about the first player saw, with
\* no question and no answer of the players asked before.
C17_ContextIsolation ==
    (InUpdate /\ is_phone /\ pc # "classify" /\ trace[1].ok) =>
        /\ document = BaseDocument
        /\ \A j \in 1..Len(document) : document[j].kind = "statement"
        /\ Len(contexts) = Len(Asks)
        /\ \A j \in 1..Len(contexts) :
              /\ contexts[j] = contexts[1]
              /\ Len(contexts[j]) = 1
              /\ contexts[j][1].kind = "statement"
              /\ contexts[j][1].quoted = BaseDocument

\* Three players were asked, the third after two answers of "no".
C17_Witness ==
    /\ InUpdate /\ is_phone /\ Len(contexts) = 3 /\ Len(Asks) = 3
    /\ Asks[1].ok /\ Asks[2].ok
    /\ contexts[3] = filter_copy_as_statement(BaseDocument)

\* The scenes entered and not yet left.
InFlight == Count("gear_up") - Count("gear_down")

\* C18: at most one scene is in flight; the clock is in the higher gear
\* exactly while that scene's run_episode is in progress; between calls the
\* gear is normal and no scene is in flight.
C18_ExclusiveGear ==
    /\ InFlight \in {0, 1}
    /\ gear = "accelerated" <=> pc = "run"
    /\ InFlight = 1 <=> pc = "run"
    /\ pc = "run" =>
          /\ phone_scene # NoScene
          /\ phone_scene.player = player
          /\ trace[Len(trace)].step = "gear_up"
    /\ pc \in Idle => gear = "normal" /\ InFlight = 0

\* A second call's scene is running in the higher gear, after a first call
\* merged events.
C18_Witness ==
    /\ pc = "run" /\ gear = "accelerated" /\ InFlight = 1
    /\ n_calls = 2 /\ memory # <<>>

\* C19: the device lookup and the scene build come before the higher gear
\* is entered and every observe and add of the merge after it is left: no
\* player's log and no memory entry is written while the clock is in the
\* higher gear.
C19_MergeInNormalGear ==
    /\ \A j \in 1..Len(trace) :
          /\ trace[j].step \in {"lookup", "build", "observe", "add"} =>
                trace[j].gear = "normal"
          /\ trace[j].step \in {"lookup", "build"} =>
                \A k \in 1..j : trace[k].step # "gear_up"
          /\ trace[j].step \in {"observe", "add"} =>
                \E k \in 1..(j - 1) : trace[k].step = "gear_down"
    /\ pc \in {"build", "merge", "add"} => gear = "normal"
    /\ gear = "accelerated" => log = log0 /\ memory = memory0

\* The second event of an output is about to be added, in the normal gear,
\* after the scene ran in the higher one.
C19_Witness ==
    /\ InUpdate /\ pc = "add" /\ pos = 2 /\ gear = "normal"
    /\ \E j \in 1..Len(trace) :
          trace[j].step = "run" /\ trace[j].gear = "accelerated"
    /\ Count("lookup") = 1 /\ Count("build") = 1

\* The calls of the current toot call that failed.
TootFailed == { j \in 1..Len(t_trace) : ~t_trace[j].ok }

TootCalls == [j \in 1..Len(t_trace) |-> t_trace[j].call]

TypeOK ==
    /\ <<players, phones>> \in Configs
    /\ gear \in {"normal", "accelerated"}
    /\ pc \in {"idle", "classify", "resolve", "build", "gear", "run", "merge",
               "add", "returned", "raised"}
    /\ player \in Actors \cup {None}
    /\ n_calls \in 0..MaxCalls

====
